---- MODULE Spec2Model ----
(***************************************************************************)
(* Film RAG demo: the answering flow (backend/backend.py), its HTTP        *)
(* boundary (main.py), the ingestion script (data_ingestion/ingest.py)     *)
(* and the string-similarity evaluation harness                            *)
(* (evaluation/evaluate_rag_system.py).                                    *)
(*                                                                         *)
(* Python strings are TLA+ strings; characters are reached with SubSeq.    *)
(* Floats are exact rationals <<numerator, denominator>> in lowest terms.  *)
(***************************************************************************)
EXTENDS Integers, Sequences, FiniteSets, TLC

VARIABLES
    film,               \* the relational film table: a set of rows
    collection,         \* the persistent "films" collection: <<[id, document]>>
    op,                 \* the operation that ran last
    request,            \* the question / query of the last request
    env,                \* what the external services did during the last request
    ask_ret,            \* what ask() did in the last request
    calls,              \* the external calls of the last request, in order
    http,               \* the HTTP response of the last request
    expected, actual,   \* scorer inputs
    fn, out,            \* scorer: the function applied and what it produced
    evaluation_data,    \* evaluation run: the dataset
    results,            \* evaluation run: the per-item records
    exact_matches, partial_matches, f1_scores,
    queried,            \* evaluation run: the questions sent, in order
    ev_pc,              \* evaluation run: "loop", "done" or "crashed"
    ev_error,           \* evaluation run: the uncaught exception, if any
    summary,            \* evaluation run: the summary computed at the end
    results_file,       \* evaluation_results.json
    fetched,            \* question generator: the films of the query result
    emitted,            \* question generator: evaluation_data before the shuffle
    dataset,            \* question generator: evaluation_data as saved
    question_types,     \* analysis: the positions of the records of each bucket
    gen_pc,             \* "start", "generated" or "analyzed"
    evaluation_scores,  \* report: the score of each metric
    type_analysis,      \* report: <<[q_type, exact_match_rate]>> of the buckets
    recommendations,    \* report: what generate_recommendations returned
    rec_pc              \* report: "start", "scored" or "reported"

server_vars == <<film, collection, op, request, env, ask_ret, calls, http>>
score_vars  == <<expected, actual, fn, out>>
eval_vars   == <<evaluation_data, results, exact_matches, partial_matches,
                 f1_scores, queried, ev_pc, ev_error, summary, results_file>>
gen_vars    == <<fetched, emitted, dataset, question_types, gen_pc>>
rec_vars    == <<evaluation_scores, type_analysis, recommendations, rec_pc>>
vars == <<server_vars, score_vars, eval_vars, gen_vars, rec_vars>>

-----------------------------------------------------------------------------
(* Bounds                                                                  *)

MaxFilms == 2       \* rows in the film table
MaxLen   == 3       \* length of the strings given to the scorer
MaxItems == 2       \* items of an evaluation dataset
MaxSwaps == 1       \* exchanges of two items in one shuffle

-----------------------------------------------------------------------------
(* Python string operations                                                *)

Char(s, i) == SubSeq(s, i, i)

\* str.isspace for one character (the \s class of re)
IsSpace(c) == c \in {" ", "\t", "\n"}

LowerLetters == "abcdefghijklmnopqrstuvwxyz"
UpperLetters == "ABCDEFGHIJKLMNOPQRSTUVWXYZ"
Digits       == "0123456789"

\* s.find(c) + 1 for one character c
IndexIn(c, s) ==
    IF \E i \in 1..Len(s) : Char(s, i) = c
    THEN CHOOSE i \in 1..Len(s) : Char(s, i) = c
    ELSE 0

\* the \w class of re for one character
IsWord(c) ==
    \/ IndexIn(c, LowerLetters) > 0 \/ IndexIn(c, UpperLetters) > 0
    \/ IndexIn(c, Digits) > 0 \/ c = "_"

LowerChar(c) ==
    LET i == IndexIn(c, UpperLetters) IN IF i = 0 THEN c ELSE Char(LowerLetters, i)

UpperChar(c) ==
    LET i == IndexIn(c, LowerLetters) IN IF i = 0 THEN c ELSE Char(UpperLetters, i)

RECURSIVE MapChars(_, _)
MapChars(s, which) ==
    IF s = "" THEN ""
    ELSE (IF which = "lower" THEN LowerChar(Char(s, 1)) ELSE UpperChar(Char(s, 1)))
         \o MapChars(SubSeq(s, 2, Len(s)), which)

lower(s) == MapChars(s, "lower")
upper(s) == MapChars(s, "upper")

RECURSIVE lstrip(_)
lstrip(s) ==
    IF s # "" /\ IsSpace(Char(s, 1)) THEN lstrip(SubSeq(s, 2, Len(s))) ELSE s

RECURSIVE rstrip(_)
rstrip(s) ==
    IF s # "" /\ IsSpace(Char(s, Len(s))) THEN rstrip(SubSeq(s, 1, Len(s) - 1)) ELSE s

strip(s) == rstrip(lstrip(s))

\* re.sub(r'\s+', ' ', s): every maximal run of whitespace becomes one space
RECURSIVE CollapseSpace(_)
CollapseSpace(s) ==
    IF s = "" THEN ""
    ELSE IF IsSpace(Char(s, 1))
         THEN " " \o CollapseSpace(lstrip(s))
         ELSE Char(s, 1) \o CollapseSpace(SubSeq(s, 2, Len(s)))

\* re.sub(r'[^\w\s]', '', s): drop what is neither a word character nor space
RECURSIVE StripPunct(_)
StripPunct(s) ==
    IF s = "" THEN ""
    ELSE (IF IsWord(Char(s, 1)) \/ IsSpace(Char(s, 1)) THEN Char(s, 1) ELSE "")
         \o StripPunct(SubSeq(s, 2, Len(s)))

\* sub in s
Contains(s, sub) ==
    \E i \in 1..(Len(s) - Len(sub) + 1) : SubSeq(s, i, i + Len(sub) - 1) = sub

\* the first whitespace-delimited word of a string without leading whitespace
RECURSIVE FirstWord(_)
FirstWord(s) ==
    IF s = "" \/ IsSpace(Char(s, 1)) THEN ""
    ELSE Char(s, 1) \o FirstWord(SubSeq(s, 2, Len(s)))

\* set(s.split())
RECURSIVE SplitSet(_)
SplitSet(s) ==
    LET t == lstrip(s) IN
    IF t = "" THEN {}
    ELSE LET w == FirstWord(t) IN {w} \cup SplitSet(SubSeq(t, Len(w) + 1, Len(t)))

\* " ".join(docs)
RECURSIVE JoinSpaces(_)
JoinSpaces(docs) ==
    IF Len(docs) = 0 THEN ""
    ELSE IF Len(docs) = 1 THEN docs[1]
    ELSE docs[1] \o " " \o JoinSpaces(Tail(docs))

\* "\n".join(docs)
RECURSIVE JoinLines(_)
JoinLines(docs) ==
    IF Len(docs) = 0 THEN ""
    ELSE IF Len(docs) = 1 THEN docs[1]
    ELSE docs[1] \o "\n" \o JoinLines(Tail(docs))

\* str(n) for a natural number
RECURSIVE IntToStr(_)
IntToStr(n) ==
    LET d == Char(Digits, (n % 10) + 1) IN
    IF n < 10 THEN d ELSE IntToStr(n \div 10) \o d


-----------------------------------------------------------------------------
(* The film table and the ingestion script                                 *)

None    == [none |-> TRUE]
Some(v) == [none |-> FALSE, v |-> v]

\* str(Decimal) of a numeric(4,2) amount held in cents
DecimalStr(c) ==
    IntToStr(c \div 100) \o "." \o IntToStr((c % 100) \div 10) \o IntToStr(c % 10)

\* the row of the film table with primary key id
FilmRow(id) ==
    IF id % 2 = 1
    THEN [film_id |-> id, title |-> "Matrix" \o IntToStr(id),
          description |-> Some("Hackers"), release_year |-> Some(1999),
          rental_rate |-> Some(499), rating |-> Some("R")]
    ELSE [film_id |-> id, title |-> "Alien" \o IntToStr(id),
          description |-> None, release_year |-> None,
          rental_rate |-> Some(0), rating |-> None]

FilmTables == { {FilmRow(id) : id \in ids} : ids \in SUBSET (1..MaxFilms) }

FetchLimit == 100

RECURSIVE OrderByFilmId(_)
OrderByFilmId(rows) ==
    IF rows = {} THEN <<>>
    ELSE LET r == CHOOSE x \in rows : \A y \in rows : x.film_id <= y.film_id
         IN <<r>> \o OrderByFilmId(rows \ {r})

\* SELECT ... FROM film ORDER BY film_id LIMIT 100
FetchFilms(rows) ==
    LET sorted == OrderByFilmId(rows)
    IN IF Len(sorted) > FetchLimit THEN SubSeq(sorted, 1, FetchLimit) ELSE sorted

text_to_embed(row) ==
    "Title: " \o row.title
    \o " | Description: "
    \o (IF row.description.none \/ row.description.v = "" THEN "" ELSE row.description.v)
    \o " | Release Year: "
    \o (IF row.release_year.none \/ row.release_year.v = 0 THEN "N/A"
        ELSE IntToStr(row.release_year.v))
    \o " | Rental Rate: $"
    \o (IF row.rental_rate.none \/ row.rental_rate.v = 0 THEN "N/A"
        ELSE DecimalStr(row.rental_rate.v))
    \o " | Rating: "
    \o (IF row.rating.none \/ row.rating.v = "" THEN "N/A" ELSE row.rating.v)

\* collection.add(documents=[text], embeddings=[embedding], ids=[film_id])
CollectionAdd(coll, id, document) == Append(coll, [id |-> id, document |-> document])

\* The loop of the script over the fetched rows; the embedding call of row
\* number failAt raises (0: none does), which ends the script there.
RECURSIVE IngestLoop(_, _, _, _)
IngestLoop(coll, rows, i, failAt) ==
    IF i > Len(rows) \/ i = failAt THEN coll
    ELSE IngestLoop(CollectionAdd(coll, IntToStr(rows[i].film_id), text_to_embed(rows[i])),
                    rows, i + 1, failAt)

\* the ingestion script without its "if existing_count > 0" test
IngestRunAlways(coll, rows, failAt) ==
    IngestLoop(coll, FetchFilms(rows), 1, failAt)

\* the ingestion script taking up the rows after those already stored
IngestRunResuming(coll, rows, failAt) ==
    LET result == FetchFilms(rows)
        existing_count == Len(coll)
    IN IF existing_count >= Len(result) THEN coll
       ELSE IngestLoop(coll, result, existing_count + 1, failAt)

\* One run of the ingestion script.
IngestRun(coll, rows, failAt) ==
    LET result == FetchFilms(rows)
        existing_count == Len(coll)
    IN IF existing_count > 0 THEN coll ELSE IngestLoop(coll, result, 1, failAt)

\* The calls of one run to the store and to the embedding service, in
\* order: the count, then per row the embedding and the add, then the final
\* count. The run ends at the embedding call that raises.
RECURSIVE IngestLoopCalls(_, _, _)
IngestLoopCalls(n, i, failAt) ==
    IF i > n THEN <<"count">>
    ELSE IF i = failAt THEN <<"embed">>
    ELSE <<"embed", "add">> \o IngestLoopCalls(n, i + 1, failAt)

IngestCalls(coll, rows, failAt) ==
    IF Len(coll) > 0 THEN <<"count", "count">>
    ELSE <<"count">> \o IngestLoopCalls(Len(FetchFilms(rows)), 1, failAt)

-----------------------------------------------------------------------------
(* The answering flow: backend.ask                                         *)

NResults == 5

Ok(payload)  == [ok |-> TRUE, msg |-> "", payload |-> payload]
Failed(m)    == [ok |-> FALSE, msg |-> m, payload |-> <<>>]

NoDocumentsAnswer ==
    "Error: No documents found in the collection. Please run the data ingestion script first."
DontKnowAnswer ==
    "I don't know the answer to that question. No relevant information found in the database."

IndexErrorText == "list index out of range"
KeyErrorText   == "'documents'"

Prompt(context, query) ==
    "You are a helpful film expert. Answer the question based on the context below. \n"
    \o "If the question cannot be answered based on the context, say 'I don't know the answer to that question based on the available information.'\n"
    \o "\nContext: " \o context \o "\n"
    \o "\nQuestion: " \o query \o "\n"
    \o "\nAnswer:"

\* the n_results argument of the collection.query call among the calls cs,
\* 0 when the query is not called
QueryArg(cs) == IF \E i \in 1..Len(cs) : cs[i] = "query" THEN NResults ELSE 0

Return(answer, context, cs, prompt) ==
    [kind |-> "return", value |-> [answer |-> answer, context |-> context],
     msg |-> "", calls |-> cs, prompt |-> prompt, n_results |-> QueryArg(cs)]
Raise(m, cs, prompt) ==
    [kind |-> "raise", value |-> [answer |-> "", context |-> ""],
     msg |-> m, calls |-> cs, prompt |-> prompt, n_results |-> QueryArg(cs)]

\* "if collection_count == 0"
CollectionIsEmptyNegative(collection_count) == collection_count < 0
CollectionIsEmpty(collection_count) == collection_count = 0

\* documents = results["documents"][0] if results["documents"] else []
ExtractDocuments(documents) ==
    IF documents.none \/ Len(documents.v) = 0 THEN <<>> ELSE documents.v[1]

\* "if not documents"
NoDocumentsIsNone(documents) == FALSE
NoDocuments(documents) == Len(documents) = 0

\* The body of the try block of ask. e holds what each external service does
\* when it is called: e.count, e.embed, e.query, e.llm.
ask_body(query, coll, e) ==
    IF ~e.count.ok THEN Raise(e.count.msg, <<"count">>, "")
    ELSE LET collection_count == Len(coll) IN
    IF CollectionIsEmpty(collection_count) THEN Return(NoDocumentsAnswer, "", <<"count">>, "")
    ELSE IF ~e.embed.ok THEN Raise(e.embed.msg, <<"count", "embed">>, "")
    ELSE IF Len(e.embed.payload) = 0 THEN Raise(IndexErrorText, <<"count", "embed">>, "")
    ELSE IF ~e.query.ok THEN Raise(e.query.msg, <<"count", "embed", "query">>, "")
    ELSE LET res == e.query.payload
             cs3 == <<"count", "embed", "query">> IN
    IF ~res.has_documents THEN Raise(KeyErrorText, cs3, "")
    ELSE LET documents == ExtractDocuments(res.documents) IN
    IF NoDocuments(documents) THEN Return(DontKnowAnswer, "", cs3, "")
    ELSE LET context == JoinLines(documents)
             prompt  == Prompt(context, query)
             cs4     == Append(cs3, "llm") IN
    IF ~e.llm.ok THEN Raise(e.llm.msg, cs4, prompt)
    ELSE IF Len(e.llm.payload) = 0 THEN Raise(IndexErrorText, cs4, prompt)
    ELSE Return(e.llm.payload[1], context, cs4, prompt)

\* ask without its except clause
ask_uncaught(query, coll, e) == ask_body(query, coll, e)

\* ask calling its body a second time when the first attempt raised
ask_retrying(query, coll, e) ==
    LET r == ask_body(query, coll, e)
    IN IF r.kind = "raise"
       THEN LET r2 == ask_body(query, coll, e) IN
            IF r2.kind = "raise"
            THEN Return("Error: " \o r2.msg, "", r.calls \o r2.calls, r2.prompt)
            ELSE Return(r2.value.answer, r2.value.context, r.calls \o r2.calls, r2.prompt)
       ELSE r

\* async def ask(query): the try block and its except Exception clause
ask(query, coll, e) ==
    LET r == ask_body(query, coll, e)
    IN IF r.kind = "raise"
       THEN Return("Error: " \o r.msg, "", r.calls, r.prompt)
       ELSE r

-----------------------------------------------------------------------------
(* The HTTP boundary: main.ask_question                                    *)

JStr(s)       == [type |-> "str", str |-> s, answer |-> "", context |-> ""]
JObj(a, c)    == [type |-> "obj", str |-> "", answer |-> a, context |-> c]
JNull         == [type |-> "null", str |-> "", answer |-> "", context |-> ""]

HttpOk(answer)         == [status |-> 200, answer |-> answer, detail |-> ""]
HttpError(code, detail) == [status |-> code, answer |-> JNull, detail |-> detail]

\* str() of a raised HTTPException, "<status>: <detail>", as the except
\* clause formats it into the detail of the 500 response
HTTPExceptionStr(code, detail) == IntToStr(code) \o ": " \o detail

NotInvoked == [kind |-> "none", value |-> [answer |-> "", context |-> ""],
               msg |-> "", calls |-> <<>>, prompt |-> "", n_results |-> 0]

\* async def ask_question(question): the HTTP response and what ask did
ask_question(question, coll, e) ==
    IF strip(question) = ""
    THEN \* the HTTPException(400) is raised inside the try block and is
         \* caught by its own "except Exception" clause
         [http |-> HttpError(500, "Internal server error: "
                                  \o HTTPExceptionStr(400, "Question cannot be empty")),
          ask |-> NotInvoked]
    ELSE LET response == ask(question, coll, e) IN
         IF response.kind = "raise"
         THEN [http |-> HttpError(500, "Internal server error: " \o response.msg),
               ask |-> response]
         ELSE [http |-> HttpOk(JObj(response.value.answer, response.value.context)),
               ask |-> response]

\* async def root()
root == [status |-> 200, answer |-> JNull,
         detail |-> "Film RAG API is running. Use POST /ask to ask questions about films."]

-----------------------------------------------------------------------------
(* The environment of a request: what the external services answer         *)

Msgs == {"Connection error.", "Request timed out."}

Completions == {"R", "I don't know."}

RECURSIVE Arrangements(_, _)
\* the sequences of n distinct elements of S
Arrangements(S, n) ==
    IF n = 0 THEN {<<>>}
    ELSE UNION { {<<x>> \o t : t \in Arrangements(S \ {x}, n - 1)} : x \in S }

Min(a, b) == IF a < b THEN a ELSE b

Documents(coll) == {coll[i].document : i \in 1..Len(coll)}

\* collection.query(query_embeddings=[v], n_results=5): the nearest
\* min(5, count) documents in a rank the store decides, or a result without
\* matches, or a result without the "documents" entry
QueryResults(coll) ==
    { [has_documents |-> TRUE, documents |-> Some(<<row>>)] :
          row \in Arrangements(Documents(coll), Min(NResults, Len(coll))) }
    \cup { [has_documents |-> TRUE, documents |-> Some(<<<<>>>>)],
           [has_documents |-> TRUE, documents |-> Some(<<>>)],
           [has_documents |-> TRUE, documents |-> None],
           [has_documents |-> FALSE, documents |-> None] }

Envs(coll) ==
    [count : {Ok(<<>>)} \cup {Failed(m) : m \in Msgs},
     embed : {Ok(<<"vector">>), Ok(<<>>)} \cup {Failed(m) : m \in Msgs},
     query : {Ok(r) : r \in QueryResults(coll)} \cup {Failed(m) : m \in Msgs},
     llm   : {Ok(<<c>>) : c \in Completions} \cup {Ok(<<>>)} \cup {Failed(m) : m \in Msgs}]

NoEnv == [count |-> Ok(<<>>), embed |-> Ok(<<>>), query |-> Failed(""), llm |-> Ok(<<>>)]

Questions == {"", " ", "a", " a.", "\t\n"}

-----------------------------------------------------------------------------
(* The server: ingestion runs, direct calls of ask, HTTP requests          *)

NoValue == [exc |-> "none", b |-> FALSE, q |-> <<0, 1>>, norm |-> "", no_punct |-> ""]
ScoreIdle == expected = "" /\ actual = "" /\ fn = "none" /\ out = NoValue
\* evaluation_results.json does not exist
NoFile ==
    [exists |-> FALSE,
     summary |-> [total_questions |-> 0, exact_matches |-> 0, partial_matches |-> 0,
                  exact_match_accuracy |-> <<0, 1>>, partial_match_accuracy |-> <<0, 1>>,
                  average_f1_score |-> <<0, 1>>],
     detailed_results |-> <<>>]

EvalIdle ==
    /\ results_file = NoFile
    /\ evaluation_data = <<>> /\ results = <<>>
    /\ exact_matches = 0 /\ partial_matches = 0 /\ f1_scores = <<>>
    /\ queried = <<>> /\ ev_pc = "idle" /\ ev_error = ""
    /\ summary = [total_questions |-> 0, exact_matches |-> 0, partial_matches |-> 0,
                  exact_match_accuracy |-> <<0, 1>>, partial_match_accuracy |-> <<0, 1>>,
                  average_f1_score |-> <<0, 1>>]

\* the buckets of analyze_results_by_question_type, in dict order
QuestionTypes == <<"rating", "year", "rental_rate", "description", "title_by_id">>

NoBuckets == [i \in 1..Len(QuestionTypes) |-> <<>>]

GenIdle ==
    /\ fetched = <<>> /\ emitted = <<>> /\ dataset = <<>>
    /\ question_types = NoBuckets /\ gen_pc = "idle"

\* the metrics of run_ragas_evaluation, in the order of its list
Metrics == <<"faithfulness", "answer_relevancy", "context_precision",
             "context_recall", "answer_correctness", "answer_similarity">>

RecIdle ==
    /\ evaluation_scores = [i \in 1..Len(Metrics) |-> <<0, 1>>]
    /\ type_analysis = <<>> /\ recommendations = <<>> /\ rec_pc = "idle"

\* no request is being handled
Idle ==
    /\ op = "none" /\ request = "" /\ env = NoEnv
    /\ ask_ret = NotInvoked /\ calls = <<>> /\ http = HttpError(0, "")

Init ==
    /\ film \in FilmTables
    /\ collection = <<>>
    /\ Idle /\ ScoreIdle /\ EvalIdle /\ GenIdle /\ RecIdle

\* python ingest.py
Ingest ==
    /\ op = "none"
    /\ \E failAt \in 0..MaxFilms :
        /\ collection' = IngestRun(collection, film, failAt)
        /\ calls' = IngestCalls(collection, film, failAt)
        /\ op' = "ingest"
        /\ UNCHANGED <<film, request, env, ask_ret, http, score_vars, eval_vars, gen_vars, rec_vars>>

\* await ask(query), called directly
CallAsk ==
    /\ op = "none"
    /\ \E query \in Questions, e \in Envs(collection) :
        LET r == ask(query, collection, e) IN
        /\ op' = "ask" /\ request' = query /\ env' = e
        /\ ask_ret' = r /\ calls' = r.calls
        /\ UNCHANGED <<film, collection, http, score_vars, eval_vars, gen_vars, rec_vars>>

\* POST /ask {question}
PostAsk ==
    /\ op = "none"
    /\ \E question \in Questions, e \in Envs(collection) :
        LET r == ask_question(question, collection, e) IN
        /\ op' = "POST /ask" /\ request' = question /\ env' = e
        /\ ask_ret' = r.ask /\ calls' = r.ask.calls /\ http' = r.http
        /\ UNCHANGED <<film, collection, score_vars, eval_vars, gen_vars, rec_vars>>

\* GET /
GetRoot ==
    /\ op = "none"
    /\ op' = "GET /" /\ http' = root
    /\ UNCHANGED <<film, collection, request, env, ask_ret, calls, score_vars, eval_vars, gen_vars, rec_vars>>

\* The operation has returned to its caller; the server waits for the next.
Finish ==
    /\ op # "none"
    /\ op' = "none" /\ request' = "" /\ env' = NoEnv
    /\ ask_ret' = NotInvoked /\ calls' = <<>> /\ http' = HttpError(0, "")
    /\ UNCHANGED <<film, collection, score_vars, eval_vars, gen_vars, rec_vars>>

Next == Ingest \/ CallAsk \/ PostAsk \/ GetRoot \/ Finish

Spec == Init /\ [][Next]_vars

-----------------------------------------------------------------------------
(* Properties of the HTTP boundary and of the answering flow               *)

AskInvoked == op \in {"ask", "POST /ask"} /\ ask_ret.kind # "none"

\* The text of the failure met by a request, "" when no stage fails: the
\* stages are consulted in the order count, embedding, query, completion,
\* and the flow ends at an empty store and at a query without matches.
NoMatches(r) ==
    r.has_documents /\ (r.documents.none \/ r.documents.v = <<>> \/ r.documents.v = <<<<>>>>)
FailureText(coll, e) ==
    IF ~e.count.ok THEN e.count.msg
    ELSE IF Len(coll) = 0 THEN ""
    ELSE IF ~e.embed.ok THEN e.embed.msg
    ELSE IF e.embed.payload = <<>> THEN "list index out of range"
    ELSE IF ~e.query.ok THEN e.query.msg
    ELSE IF ~e.query.payload.has_documents THEN "'documents'"
    ELSE IF NoMatches(e.query.payload) THEN ""
    ELSE IF ~e.llm.ok THEN e.llm.msg
    ELSE IF e.llm.payload = <<>> THEN "list index out of range"
    ELSE ""

\* C1: a POST /ask whose question is empty or only whitespace is answered
\* with status 400, and ask is not invoked for it.
C1_EmptyQuestionIs400 ==
    (op = "POST /ask" /\ strip(request) = "")
        => (http.status = 400 /\ ask_ret.kind = "none")

\* C2: ask never raises; whenever a stage fails, ask returns the answer
\* "Error: " followed by the text of the failure, with the empty context.
C2_AskNeverRaises ==
    AskInvoked =>
        /\ ask_ret.kind = "return"
        /\ FailureText(collection, env) # "" =>
               ask_ret.value = [answer  |-> "Error: " \o FailureText(collection, env),
                                context |-> ""]

C2_Witness ==
    /\ op = "ask" /\ ask_ret.kind = "return"
    /\ calls = <<"count", "embed", "query", "llm">>
    /\ ~env.llm.ok
    /\ ask_ret.value.answer = "Error: Request timed out."

\* C3: for a non-empty question the answer field of the POST /ask response
\* is a string, the answer that ask returned.
C3_AnswerFieldIsString ==
    (op = "POST /ask" /\ strip(request) # "")
        => /\ http.status = 200
           /\ http.answer.type = "str"
           /\ http.answer.str = ask_ret.value.answer

\* C4: when the count of the store is 0, ask returns the fixed "No documents
\* found" answer with the empty context, and the only external call of the
\* request is the count.
C4_EmptyStore ==
    (AskInvoked /\ env.count.ok /\ Len(collection) = 0) =>
        /\ ask_ret.kind = "return"
        /\ ask_ret.value =
             [answer  |-> "Error: No documents found in the collection. Please run the data ingestion script first.",
              context |-> ""]
        /\ calls = <<"count">>

C4_Witness ==
    /\ op = "POST /ask" /\ ask_ret.kind = "return"
    /\ env.count.ok /\ Len(collection) = 0
    /\ env.embed.ok /\ env.query.ok /\ env.llm.ok

\* C5: when the store is not empty and the query returns no document (an
\* empty documents list or an empty first row), ask returns the fixed "I
\* don't know" answer with the empty context and does not call the model.
C5_NoMatches ==
    (/\ AskInvoked /\ env.count.ok /\ Len(collection) > 0
     /\ env.embed.ok /\ env.embed.payload # <<>>
     /\ env.query.ok /\ env.query.payload.has_documents
     /\ ~env.query.payload.documents.none
     /\ env.query.payload.documents.v \in {<<>>, <<<<>>>>}) =>
        /\ ask_ret.kind = "return"
        /\ ask_ret.value =
             [answer  |-> "I don't know the answer to that question. No relevant information found in the database.",
              context |-> ""]
        /\ \A i \in 1..Len(calls) : calls[i] # "llm"

C5_Witness ==
    /\ op = "ask" /\ ask_ret.kind = "return"
    /\ Len(collection) > 0
    /\ calls = <<"count", "embed", "query">>
    /\ env.query.ok /\ env.query.payload.has_documents
    /\ ~env.query.payload.documents.none
    /\ env.query.payload.documents.v = <<<<>>>>
    /\ env.llm.ok /\ env.llm.payload # <<>>

-----------------------------------------------------------------------------
(* The scorer: evaluate_rag_system.py                                      *)

RECURSIVE GCD(_, _)
GCD(a, b) == IF b = 0 THEN a ELSE GCD(b, a % b)

\* the float n/d as an exact rational in lowest terms
Q(n, d) == LET g == GCD(n, d) IN <<n \div g, d \div g>>
QAdd(x, y) == Q(x[1] * y[2] + y[1] * x[2], x[2] * y[2])
QMul(x, y) == Q(x[1] * y[1], x[2] * y[2])
QDiv(x, y) == Q(x[1] * y[2], x[2] * y[1])
QGeq(x, y) == x[1] * y[2] >= y[1] * x[2]
QMax(x, y) == IF QGeq(x, y) THEN x ELSE y
Zero == Q(0, 1)
One  == Q(1, 1)

\* what a call produced: a raised exception, or a value
Raised(excn)  == [exc |-> excn, b |-> FALSE, q |-> Zero, norm |-> "", no_punct |-> ""]
BoolVal(v)    == [exc |-> "", b |-> v, q |-> Zero, norm |-> "", no_punct |-> ""]
FloatVal(v)   == [exc |-> "", b |-> FALSE, q |-> v, norm |-> "", no_punct |-> ""]

\* "a, b = normalize_text(text)" for a str text: the early return gives the
\* str "", which does not unpack into two names
normalize_text(text) ==
    IF text = "" THEN Raised("ValueError")
    ELSE LET normalized == lower(CollapseSpace(strip(text)))
             normalized_no_punct == StripPunct(normalized)
         IN [exc |-> "", b |-> FALSE, q |-> Zero,
             norm |-> normalized, no_punct |-> normalized_no_punct]

\* "a, b = normalize_text(answer)" for an answer as query_rag_system returns
\* it: a str, or the JSON object of the response, which has no strip()
normalize_answer(answer) ==
    IF answer.type = "str" THEN normalize_text(answer.str)
    ELSE IF answer.type = "null" THEN Raised("ValueError")
    ELSE Raised("AttributeError")

\* the length of the longest common run of a from i and b from j, inside
\* a[..ahi] and b[..bhi]
RECURSIVE RunLength(_, _, _, _, _, _)
RunLength(a, b, i, j, ahi, bhi) ==
    IF i > ahi \/ j > bhi \/ Char(a, i) # Char(b, j) THEN 0
    ELSE 1 + RunLength(a, b, i + 1, j + 1, ahi, bhi)

\* SequenceMatcher.find_longest_match(alo, ahi, blo, bhi) without junk: the
\* longest block, the earliest in a among the longest, then the earliest in b
find_longest_match(a, b, alo, ahi, blo, bhi) ==
    LET cands == { <<i, j, RunLength(a, b, i, j, ahi, bhi)>> :
                       i \in alo..ahi, j \in blo..bhi }
        Better(x, y) == \/ x[3] > y[3]
                        \/ x[3] = y[3] /\ x[1] < y[1]
                        \/ x[3] = y[3] /\ x[1] = y[1] /\ x[2] <= y[2]
    IN IF cands = {} THEN <<alo, blo, 0>>
       ELSE CHOOSE x \in cands : \A y \in cands : Better(x, y)

\* the number of matched characters: the sum of the sizes of
\* SequenceMatcher.get_matching_blocks()
RECURSIVE Matches(_, _, _, _, _, _)
Matches(a, b, alo, ahi, blo, bhi) ==
    LET m == find_longest_match(a, b, alo, ahi, blo, bhi) IN
    IF m[3] = 0 THEN 0
    ELSE m[3] + Matches(a, b, alo, m[1] - 1, blo, m[2] - 1)
              + Matches(a, b, m[1] + m[3], ahi, m[2] + m[3], bhi)

\* SequenceMatcher(None, a, b).ratio()
ratio(a, b) ==
    LET length == Len(a) + Len(b) IN
    IF length = 0 THEN One
    ELSE Q(2 * Matches(a, b, 1, Len(a), 1, Len(b)), length)

Threshold == Q(8, 10)

exact_match_score(expected_, actual_) ==
    LET e == normalize_text(expected_) IN
    IF e.exc # "" THEN Raised(e.exc)
    ELSE LET a == normalize_answer(actual_) IN
    IF a.exc # "" THEN Raised(a.exc)
    ELSE BoolVal(e.norm = a.norm)

\* a partial match that is not an exact one
partial_match_score_proper(expected_, actual_) ==
    LET e == normalize_text(expected_) IN
    IF e.exc # "" THEN Raised(e.exc)
    ELSE LET a == normalize_answer(actual_) IN
    IF a.exc # "" THEN Raised(a.exc)
    ELSE LET similarity1 == ratio(e.norm, a.norm)
             similarity2 == ratio(e.no_punct, a.no_punct)
         IN BoolVal(QGeq(QMax(similarity1, similarity2), Threshold)
                    /\ QMax(similarity1, similarity2) # One)

partial_match_score(expected_, actual_) ==
    LET e == normalize_text(expected_) IN
    IF e.exc # "" THEN Raised(e.exc)
    ELSE LET a == normalize_answer(actual_) IN
    IF a.exc # "" THEN Raised(a.exc)
    ELSE LET similarity1 == ratio(e.norm, a.norm)
             similarity2 == ratio(e.no_punct, a.no_punct)
         IN BoolVal(QGeq(QMax(similarity1, similarity2), Threshold))

calculate_f1_score(expected_, actual_) ==
    LET e == normalize_text(expected_) IN
    IF e.exc # "" THEN Raised(e.exc)
    ELSE LET a == normalize_answer(actual_) IN
    IF a.exc # "" THEN Raised(a.exc)
    ELSE LET expected_words == SplitSet(e.no_punct)
             actual_words   == SplitSet(a.no_punct)
         IN
    IF expected_words = {} /\ actual_words = {} THEN FloatVal(One)
    ELSE IF expected_words = {} \/ actual_words = {} THEN FloatVal(Zero)
    ELSE LET intersection == expected_words \cap actual_words
             precision == Q(Cardinality(intersection), Cardinality(actual_words))
             recall    == Q(Cardinality(intersection), Cardinality(expected_words))
         IN IF QAdd(precision, recall) = Zero THEN FloatVal(Zero)
            ELSE FloatVal(QDiv(QMul(Q(2, 1), QMul(precision, recall)),
                               QAdd(precision, recall)))

-----------------------------------------------------------------------------
(* The scorer applied to pairs of strings                                  *)

Alphabet == {"a", "B", " ", "."}

RECURSIVE StringsOfLen(_)
StringsOfLen(n) ==
    IF n = 0 THEN {""}
    ELSE {s \o c : s \in StringsOfLen(n - 1), c \in Alphabet}

ScorerStrings == UNION {StringsOfLen(n) : n \in 0..MaxLen} \cup {"ERROR"}

ServerIdleEver ==
    /\ film = {} /\ collection = <<>> /\ Idle

InitScore ==
    /\ expected \in ScorerStrings
    /\ actual \in ScorerStrings
    /\ fn = "none" /\ out = NoValue
    /\ ServerIdleEver /\ EvalIdle /\ GenIdle /\ RecIdle

\* exact_match_score(expected, actual)
ExactMatch ==
    /\ fn = "none"
    /\ fn' = "exact_match_score"
    /\ out' = exact_match_score(expected, JStr(actual))
    /\ UNCHANGED <<expected, actual, server_vars, eval_vars, gen_vars, rec_vars>>

\* exact_match_score(expected, expected.upper())
ExactMatchUpper ==
    /\ fn = "none"
    /\ fn' = "exact_match_score upper"
    /\ out' = exact_match_score(expected, JStr(upper(expected)))
    /\ UNCHANGED <<expected, actual, server_vars, eval_vars, gen_vars, rec_vars>>

\* partial_match_score(expected, actual)
PartialMatch ==
    /\ fn = "none"
    /\ fn' = "partial_match_score"
    /\ out' = partial_match_score(expected, JStr(actual))
    /\ UNCHANGED <<expected, actual, server_vars, eval_vars, gen_vars, rec_vars>>

\* calculate_f1_score(expected, actual)
F1Score ==
    /\ fn = "none"
    /\ fn' = "calculate_f1_score"
    /\ out' = calculate_f1_score(expected, JStr(actual))
    /\ UNCHANGED <<expected, actual, server_vars, eval_vars, gen_vars, rec_vars>>

NextScore == ExactMatch \/ ExactMatchUpper \/ PartialMatch \/ F1Score

SpecScore == InitScore /\ [][NextScore]_vars

-----------------------------------------------------------------------------
(* The evaluation flow: evaluate_rag_system                                *)

\* query_rag_system: what the POST to base_url/ask gave. A
\* RequestException (no connection, a timeout, an error status at
\* raise_for_status) gives the str "ERROR"; otherwise the "answer" entry of
\* the response body is returned as it is.
query_rag_system(net_ok, response) ==
    IF ~net_ok \/ response.status >= 400 THEN JStr("ERROR")
    ELSE response.answer

\* query_rag_system_with_context: reads result["answer"] and
\* result["context"] of the response body, which has the one key "answer"
query_rag_system_with_context(net_ok, response) ==
    IF ~net_ok \/ response.status >= 400
    THEN [exc |-> "", answer |-> JStr("ERROR"),
          context |-> "No context available due to error"]
    ELSE [exc |-> "KeyError", answer |-> response.answer, context |-> ""]

\* The answers base_url/ask can give to a question: those of this
\* repository's ask_question over the store coll, and those of a server that
\* answers {answer: <str>} as the interface is documented.
DocumentedAnswers == {"a", "A", "B a", "error", ""}

Responses(question, coll) ==
    { ask_question(question, coll, e).http : e \in Envs(coll) }
    \cup { HttpOk(JStr(a)) : a \in DocumentedAnswers }

Answers(question, coll) ==
    { query_rag_system(TRUE, r) : r \in Responses(question, coll) }
    \cup { query_rag_system(FALSE, HttpError(0, "")) }

RECURSIVE QSum(_)
QSum(fs) == IF Len(fs) = 0 THEN Zero ELSE QAdd(fs[1], QSum(Tail(fs)))

Record(item, answer, em, pm, f1) ==
    [question |-> item.question, expected |-> item.expected_answer,
     actual |-> answer, exact_match |-> em, partial_match |-> pm, f1_score |-> f1]

\* "Calculate overall metrics" and the summary of detailed_results
Summary(total_questions, em, pm, fs) ==
    [total_questions |-> total_questions,
     exact_matches |-> em,
     partial_matches |-> pm,
     exact_match_accuracy |-> Q(em, total_questions),
     partial_match_accuracy |-> Q(pm, total_questions),
     average_f1_score |-> QDiv(QSum(fs), Q(Len(fs), 1))]

NoSummary == [total_questions |-> 0, exact_matches |-> 0, partial_matches |-> 0,
              exact_match_accuracy |-> Zero, partial_match_accuracy |-> Zero,
              average_f1_score |-> Zero]

\* json.dump(detailed_results, f) on open("evaluation_results.json", "w")
ResultsFile(s, rs) == [exists |-> TRUE, summary |-> s, detailed_results |-> rs]

\* the file an earlier, completed run left behind
PriorFile ==
    ResultsFile(Summary(1, 1, 1, <<One>>),
                <<Record([question |-> "old", expected_answer |-> "a"],
                         "a", TRUE, TRUE, One)>>)

EvalItems ==
    { [question |-> "",   expected_answer |-> "a"],
      [question |-> "a",  expected_answer |-> ""],
      [question |-> "a",  expected_answer |-> "a"],
      [question |-> "a.", expected_answer |-> "a B"],
      [question |-> "B",  expected_answer |-> "ERROR"],
      [question |-> " a", expected_answer |-> " Error."] }

RECURSIVE SeqsOfLen(_, _)
SeqsOfLen(S, n) ==
    IF n = 0 THEN {<<>>}
    ELSE {Append(t, x) : t \in SeqsOfLen(S, n - 1), x \in S}

Datasets == UNION {SeqsOfLen(EvalItems, n) : n \in 0..MaxItems}

InitEval ==
    /\ film = {FilmRow(1)}
    /\ collection \in {<<>>, IngestRun(<<>>, {FilmRow(1)}, 0)}
    /\ Idle /\ ScoreIdle /\ GenIdle /\ RecIdle
    /\ evaluation_data \in Datasets
    /\ results = <<>> /\ exact_matches = 0 /\ partial_matches = 0
    /\ f1_scores = <<>> /\ queried = <<>>
    /\ ev_pc = "loop" /\ ev_error = "" /\ summary = NoSummary
    /\ results_file \in {NoFile, PriorFile}

Crash(excn) ==
    /\ ev_pc' = "crashed" /\ ev_error' = excn
    /\ UNCHANGED <<results, exact_matches, partial_matches, f1_scores, summary,
                   results_file>>

\* one iteration of "for i, item in enumerate(evaluation_data)"
EvalItem ==
    /\ ev_pc = "loop"
    /\ Len(queried) < Len(evaluation_data)
    /\ LET item == evaluation_data[Len(queried) + 1]
           question == item.question
           expected_answer == item.expected_answer
       IN \E actual_answer \in Answers(question, collection) :
          LET exact_match   == exact_match_score(expected_answer, actual_answer)
              partial_match == partial_match_score(expected_answer, actual_answer)
              f1_score      == calculate_f1_score(expected_answer, actual_answer)
          IN /\ queried' = Append(queried, question)
             /\ IF exact_match.exc # "" THEN Crash(exact_match.exc)
                ELSE IF partial_match.exc # "" THEN Crash(partial_match.exc)
                ELSE IF f1_score.exc # "" THEN Crash(f1_score.exc)
                ELSE /\ exact_matches' = exact_matches + (IF exact_match.b THEN 1 ELSE 0)
                     /\ partial_matches' = partial_matches + (IF partial_match.b THEN 1 ELSE 0)
                     /\ f1_scores' = Append(f1_scores, f1_score.q)
                     /\ results' = Append(results,
                            Record(item, actual_answer.str, exact_match.b,
                                   partial_match.b, f1_score.q))
                     /\ UNCHANGED <<ev_pc, ev_error, summary, results_file>>
    /\ UNCHANGED <<evaluation_data, server_vars, score_vars, gen_vars, rec_vars>>

\* the code after the loop: the overall metrics, the summary and the
\* results file
Summarize ==
    /\ ev_pc = "loop"
    /\ Len(queried) = Len(evaluation_data)
    /\ LET total_questions == Len(evaluation_data) IN
       IF total_questions = 0 THEN Crash("ZeroDivisionError")
       ELSE /\ summary' = Summary(total_questions, exact_matches, partial_matches, f1_scores)
            /\ results_file' = ResultsFile(summary', results)
            /\ ev_pc' = "done"
            /\ UNCHANGED <<results, exact_matches, partial_matches, f1_scores, ev_error>>
    /\ UNCHANGED <<evaluation_data, queried, server_vars, score_vars, gen_vars, rec_vars>>

NextEval == EvalItem \/ Summarize

SpecEval == InitEval /\ [][NextEval]_vars

-----------------------------------------------------------------------------
(* Properties of the scorer                                                *)

\* the punctuation-stripped, lower-cased, whitespace-split token set
TokenSet(x) == SplitSet(StripPunct(lower(x)))

\* trimmed, whitespace runs collapsed to one space, lower-cased
Normalized(x) == lower(CollapseSpace(strip(x)))

\* C6: f1("", "") is 1.0, and f1("", x) and f1(x, "") are 0.0 for every x
\* that has at least one token.
C6_F1EmptyBoundary ==
    fn = "calculate_f1_score" =>
        /\ (expected = "" /\ actual = "") => out = FloatVal(One)
        /\ (expected = "" /\ TokenSet(actual) # {}) => out = FloatVal(Zero)
        /\ (actual = "" /\ TokenSet(expected) # {}) => out = FloatVal(Zero)

\* C7: exact_match_score(s, s) and exact_match_score(s, s.upper()) are true
\* for every string s, the empty one included, and exact_match_score(a, b) is
\* true exactly when a and b are equal after trimming, collapsing whitespace
\* and lower-casing.
C7_ExactMatchNormalized ==
    /\ (fn = "exact_match_score" /\ expected = actual) => out = BoolVal(TRUE)
    /\ fn = "exact_match_score upper" => out = BoolVal(TRUE)
    /\ fn = "exact_match_score" =>
           out = BoolVal(Normalized(expected) = Normalized(actual))

\* C8: calculate_f1_score is 0.0 on non-empty disjoint token sets, 1.0 on
\* equal token sets, and otherwise the harmonic mean of
\* |intersection|/|actual tokens| and |intersection|/|expected tokens|,
\* that is 2|intersection| / (|actual tokens| + |expected tokens|).
C8_F1TokenSets ==
    fn = "calculate_f1_score" =>
        LET E == TokenSet(expected)
            A == TokenSet(actual)
        IN /\ out.exc = ""
           /\ (E # {} /\ A # {} /\ E \cap A = {}) => out.q = Zero
           /\ E = A => out.q = One
           /\ E # A => out.q = Q(2 * Cardinality(E \cap A),
                                 Cardinality(E) + Cardinality(A))

-----------------------------------------------------------------------------
(* Properties of the evaluation flow                                       *)

Count(P(_)) == Cardinality({i \in 1..Len(results) : P(results[i])})
IsExact(r)   == r.exact_match
IsPartial(r) == r.partial_match

\* C9: partial match is reflexive and implied by exact match: a record
\* whose actual answer is its expected answer is a partial match, a record
\* that is an exact match is a partial match, and so the counters and every
\* summary have exact_matches <= partial_matches <= total_questions.
C9_PartialImpliedByExact ==
    /\ \A i \in 1..Len(results) :
           /\ results[i].actual = results[i].expected => results[i].partial_match
           /\ results[i].exact_match => results[i].partial_match
    /\ exact_matches <= partial_matches
    /\ partial_matches <= Len(results)
    /\ ev_pc = "done" =>
           /\ summary.exact_matches <= summary.partial_matches
           /\ summary.partial_matches <= summary.total_questions

C9_Witness ==
    /\ ev_pc = "done"
    /\ summary.total_questions = 2
    /\ summary.exact_matches = 1
    /\ summary.partial_matches = 2
    /\ \E i \in 1..Len(results) :
           results[i].actual = results[i].expected /\ results[i].partial_match

\* C10: for every dataset the evaluation completes, and its summary has
\* exact_match_accuracy = exact_matches / total_questions,
\* partial_match_accuracy = partial_matches / total_questions and
\* average_f1_score = the mean of the per-item F1 scores, where the two
\* counts are those of the records flagged exact / partial and
\* total_questions is the length of the dataset.
C10_EvaluationCompletes ==
    /\ ev_pc # "crashed"
    /\ ev_pc = "done" =>
           /\ summary.total_questions = Len(evaluation_data)
           /\ summary.exact_matches = Count(IsExact)
           /\ summary.partial_matches = Count(IsPartial)
           /\ summary.exact_match_accuracy =
                  Q(Count(IsExact), Len(evaluation_data))
           /\ summary.partial_match_accuracy =
                  Q(Count(IsPartial), Len(evaluation_data))
           /\ summary.average_f1_score =
                  QDiv(QSum([i \in 1..Len(results) |-> results[i].f1_score]),
                       Q(Len(results), 1))

-----------------------------------------------------------------------------
(* Properties of the ingestion script                                      *)

IngestStep == op = "none" /\ op' = "ingest"

\* the run ended at an embedding call that raised
EmbeddingFailed(cs) == Len(cs) > 0 /\ cs[Len(cs)] = "embed"

\* coll holds one document per row of rows, in their order, under the
\* string form of the row's film_id
StoresRows(coll, rows, n) ==
    /\ Len(coll) = n
    /\ \A i \in 1..n : coll[i].id = IntToStr(rows[i].film_id)

\* C11: an ingestion run on a non-empty store adds, changes and removes no
\* document; a run on an empty store whose embedding calls all succeed
\* stores exactly one document per fetched record under the string form of
\* its film_id, so the final count is the number of fetched records.
C11_ReingestionIsNoOp ==
    [][IngestStep =>
        /\ Len(collection) > 0 => collection' = collection
        /\ (Len(collection) = 0 /\ ~EmbeddingFailed(calls')) =>
              /\ StoresRows(collection', FetchFilms(film), Len(FetchFilms(film)))
              /\ Len(collection') = Cardinality(film)
              /\ \A r \in film :
                    Cardinality({i \in 1..Len(collection') :
                                    collection'[i].id = IntToStr(r.film_id)}) = 1
      ]_vars

C11_Witness ==
    /\ op = "ingest"
    /\ calls = <<"count", "count">>
    /\ Cardinality(film) = 2
    /\ Len(collection) = 2
    /\ collection[2].id = "2"

\* C19: a run that started on an empty store and failed at an embedding call
\* leaves a strict prefix of the fetched records in film_id order, and a
\* non-empty store is never changed again, whatever runs follow, so the
\* remaining records are never ingested.
C19_IngestionNotResumable ==
    [][/\ (IngestStep /\ Len(collection) = 0 /\ EmbeddingFailed(calls')) =>
              /\ Len(collection') < Len(FetchFilms(film))
              /\ StoresRows(collection', FetchFilms(film), Len(collection'))
       /\ Len(collection) > 0 => collection' = collection
      ]_vars

C19_Witness ==
    /\ op = "ingest"
    /\ calls = <<"count", "count">>
    /\ Cardinality(film) = 2
    /\ Len(collection) = 1
    /\ collection[1].id = "1"

-----------------------------------------------------------------------------
(* Properties of the calls of the answering flow                           *)

AskStep == op = "none" /\ op' \in {"ask", "POST /ask"} /\ ask_ret'.kind # "none"

StageOrder == <<"count", "embed", "query", "llm">>

IsPrefix(s, t) == Len(s) <= Len(t) /\ \A i \in 1..Len(s) : s[i] = t[i]

\* the stage whose failure ends the request, "" when none fails
FailedStage(coll, e) ==
    IF ~e.count.ok THEN "count"
    ELSE IF Len(coll) = 0 THEN ""
    ELSE IF ~e.embed.ok \/ e.embed.payload = <<>> THEN "embed"
    ELSE IF ~e.query.ok \/ ~e.query.payload.has_documents THEN "query"
    ELSE IF NoMatches(e.query.payload) THEN ""
    ELSE IF ~e.llm.ok \/ e.llm.payload = <<>> THEN "llm"
    ELSE ""

\* C16: the external calls of a request are a prefix of count, embedding,
\* query (with n_results 5), completion, each at most once; a stage that
\* fails is the last call of the request, which ends with an error answer;
\* the request leaves the store as it was.
C16_CallsOnceInOrder ==
    [][AskStep =>
        /\ IsPrefix(calls', StageOrder)
        /\ (\E i \in 1..Len(calls') : calls'[i] = "query") <=> ask_ret'.n_results = 5
        /\ FailedStage(collection, env') # "" =>
              /\ calls'[Len(calls')] = FailedStage(collection, env')
              /\ ask_ret'.kind = "return"
              /\ SubSeq(ask_ret'.value.answer, 1, 7) = "Error: "
              /\ ask_ret'.value.context = ""
        /\ collection' = collection
        /\ film' = film
      ]_vars

C16_Witness ==
    /\ op = "ask"
    /\ Len(collection) > 0
    /\ calls = <<"count", "embed">>
    /\ ~env.embed.ok /\ env.query.ok /\ env.llm.ok
    /\ ask_ret.value = [answer |-> "Error: Connection error.", context |-> ""]

RECURSIVE NewlineJoined(_)
NewlineJoined(row) ==
    IF row = <<>> THEN ""
    ELSE row[1] \o (IF Len(row) = 1 THEN "" ELSE "\n") \o NewlineJoined(Tail(row))

SuccessPath ==
    /\ AskInvoked /\ ask_ret.kind = "return"
    /\ calls = StageOrder
    /\ FailedStage(collection, env) = ""

\* C17: on the success path the context is the documents of the first
\* result row joined with newlines in the order of the row, which has at
\* most 5 documents; the prompt holds that same context; the answer is the
\* first completion choice unchanged.
C17_ContextAndAnswer ==
    SuccessPath =>
        LET row == env.query.payload.documents.v[1] IN
        /\ ask_ret.value.context = NewlineJoined(row)
        /\ Len(row) <= 5 /\ ask_ret.n_results = 5
        /\ ask_ret.prompt = Prompt(NewlineJoined(row), request)
        /\ ask_ret.value.answer = env.llm.payload[1]

C17_Witness ==
    /\ SuccessPath /\ op = "ask"
    /\ Len(collection) = 2
    /\ env.query.payload.documents.v[1]
           = <<collection[2].document, collection[1].document>>
    /\ ask_ret.value.context = collection[2].document \o "\n" \o collection[1].document
    /\ ask_ret.value.answer = "R"

-----------------------------------------------------------------------------
(* Properties of the evaluation run                                        *)

RunEnded == ev_pc \in {"done", "crashed"}

Questions_of(data) == [i \in 1..Len(data) |-> data[i].question]

\* C18: a run produces exactly one record per item, in dataset order, each
\* item queried exactly once and scored only after its answer is obtained;
\* an answer "ERROR" is scored like any other answer and does not end the
\* run; the results file holds this run's records and nothing else.
C18_OneRecordPerItem ==
    /\ Len(results) <= Len(queried)
    /\ IsPrefix(queried, Questions_of(evaluation_data))
    /\ \A i \in 1..Len(results) :
          /\ results[i].question = evaluation_data[i].question
          /\ results[i].expected = evaluation_data[i].expected_answer
          /\ results[i].exact_match =
                 exact_match_score(results[i].expected, JStr(results[i].actual)).b
    /\ RunEnded =>
          /\ Len(results) = Len(evaluation_data)
          /\ queried = Questions_of(evaluation_data)
          /\ results_file.exists
          /\ results_file.detailed_results = results

-----------------------------------------------------------------------------
(* The question generator: create_evaluation_dataset                       *)

GenLimit == 20

DescriptionCut == 50

LongDescription  == "A Epic Drama of a Feminist And a Mad Scientist who must Battle a Teacher"
Cut50Description == "A Fateful Yarn of a Lumberjack And a Feminist here"

\* films as the generator can meet them: a description of more than 50, of
\* exactly 50 and of fewer characters, an empty and a NULL one; NULL
\* rating, year and rate; a rate of 0.00; titles that hold other words
GenFilm(v) ==
    CASE v = 1 -> [film_id |-> 1, title |-> "Alien",
                   description |-> Some(LongDescription), release_year |-> Some(2006),
                   rental_rate |-> Some(499), rating |-> Some("PG")]
      [] v = 2 -> [film_id |-> 2, title |-> "Matrix",
                   description |-> None, release_year |-> None,
                   rental_rate |-> None, rating |-> None]
      [] v = 3 -> [film_id |-> 3, title |-> "Rating Game",
                   description |-> Some(""), release_year |-> Some(1999),
                   rental_rate |-> Some(0), rating |-> Some("R")]
      [] OTHER -> [film_id |-> 4, title |-> "Year One",
                   description |-> Some(Cut50Description), release_year |-> Some(2006),
                   rental_rate |-> Some(99), rating |-> Some("G")]

Variants == 1..4

\* film tables of at most MaxFilms of these rows
GenFilmTables ==
    { {GenFilm(v) : v \in vs} : vs \in {t \in SUBSET Variants : Cardinality(t) <= MaxFilms} }

\* SELECT ... FROM film ORDER BY RANDOM() LIMIT 20
FetchRandom(rows) ==
    LET n == IF Cardinality(rows) > GenLimit THEN GenLimit ELSE Cardinality(rows)
    IN {r \in SeqsOfLen(rows, n) : \A i, j \in 1..n : i # j => r[i] # r[j]}

RatingQuestion(title)      == "What is the rating of the film " \o title \o "?"
YearQuestion(title)        == "What year was the film " \o title \o " released?"
RentalRateQuestion(title)  == "What is the rental rate for the film " \o title \o "?"
DescriptionQuestion(title) == "What is the description of the film " \o title \o "?"
TitleByIdQuestion(film_id) == "What is the title of film ID " \o IntToStr(film_id) \o "?"

Item(question, expected_answer) ==
    [question |-> question, expected_answer |-> expected_answer]

\* description[:50] + "..." if len(description) >= 50 else description
short_desc_inclusive(description) ==
    IF Len(description) >= DescriptionCut
    THEN SubSeq(description, 1, DescriptionCut) \o "..."
    ELSE description

\* description[:50] + "..." if len(description) > 50 else description
short_desc(description) ==
    IF Len(description) > DescriptionCut
    THEN SubSeq(description, 1, DescriptionCut) \o "..."
    ELSE description

\* the items appended for one film; "x if x else" takes None, "", 0 and
\* Decimal("0.00") alike for false
FilmItems(row) ==
    <<Item(RatingQuestion(row.title),
           IF row.rating.none \/ row.rating.v = "" THEN "N/A" ELSE row.rating.v),
      Item(YearQuestion(row.title),
           IF row.release_year.none \/ row.release_year.v = 0 THEN "N/A"
           ELSE IntToStr(row.release_year.v)),
      Item(RentalRateQuestion(row.title),
           IF row.rental_rate.none \/ row.rental_rate.v = 0 THEN "N/A"
           ELSE "$" \o DecimalStr(row.rental_rate.v))>>
    \o (IF row.description.none \/ row.description.v = "" THEN <<>>
        ELSE <<Item(DescriptionQuestion(row.title), short_desc(row.description.v))>>)
    \o <<Item(TitleByIdQuestion(row.film_id), row.title)>>

\* "for film in result"
RECURSIVE AllItems(_)
AllItems(rows) ==
    IF rows = <<>> THEN <<>> ELSE FilmItems(rows[1]) \o AllItems(Tail(rows))

Swap(x, i, j) == [x EXCEPT ![i] = x[j], ![j] = x[i]]

\* "for i in reversed(range(1, len(x))): j = randbelow(i + 1); x[i], x[j] =
\* x[j], x[i]" from position i down, for the draws j = i and, at most k
\* times, j = i - 1
RECURSIVE Shuffles(_, _, _)
Shuffles(x, i, k) ==
    IF i < 2 THEN {x}
    ELSE Shuffles(x, i - 1, k)
         \cup (IF k > 0 THEN Shuffles(Swap(x, i, i - 1), i - 1, k - 1) ELSE {})

\* random.shuffle(x): the orders it can leave, of those that MaxSwaps
\* exchanges reach
shuffle(x) == Shuffles(x, Len(x), MaxSwaps)

\* the elif chain of analyze_results_by_question_type: the position of the
\* bucket in QuestionTypes, 0 when no keyword is found
question_type(q) ==
    LET question == lower(q) IN
    IF Contains(question, "rating") THEN 1
    ELSE IF Contains(question, "year") \/ Contains(question, "released") THEN 2
    ELSE IF Contains(question, "rental rate") THEN 3
    ELSE IF Contains(question, "description") THEN 4
    ELSE IF Contains(question, "film id") \/ Contains(question, "id") THEN 5
    ELSE 0

RECURSIVE Positions(_, _, _)
Positions(types, b, i) ==
    IF i > Len(types) THEN <<>>
    ELSE (IF types[i] = b THEN <<i>> ELSE <<>>) \o Positions(types, b, i + 1)

\* analyze_results_by_question_type over records with these questions
analyze_results_by_question_type(records) ==
    LET types == [i \in 1..Len(records) |-> question_type(records[i].question)]
    IN [b \in 1..Len(QuestionTypes) |-> Positions(types, b, 1)]

InitGen ==
    /\ film \in GenFilmTables
    /\ collection = <<>>
    /\ Idle /\ ScoreIdle /\ EvalIdle /\ RecIdle
    /\ fetched = <<>> /\ emitted = <<>> /\ dataset = <<>>
    /\ question_types = NoBuckets /\ gen_pc = "start"

\* python create_evaluation_dataset.py
CreateEvaluationDataset ==
    /\ gen_pc = "start"
    /\ \E r \in FetchRandom(film) :
       \E shuffled \in shuffle(AllItems(r)) :
          /\ fetched' = r
          /\ emitted' = AllItems(r)
          /\ dataset' = shuffled
    /\ gen_pc' = "generated"
    /\ UNCHANGED <<question_types, server_vars, score_vars, eval_vars, rec_vars>>

\* the analysis of the records of an evaluation of the saved dataset; a
\* record carries the question of its item
Analyze ==
    /\ gen_pc = "generated"
    /\ question_types' = analyze_results_by_question_type(dataset)
    /\ gen_pc' = "analyzed"
    /\ UNCHANGED <<fetched, emitted, dataset, server_vars, score_vars, eval_vars, rec_vars>>

NextGen == CreateEvaluationDataset \/ Analyze

SpecGen == InitGen /\ [][NextGen]_vars

-----------------------------------------------------------------------------
(* Properties of the question generator and of the analysis                *)

Generated == gen_pc \in {"generated", "analyzed"}

HasDescription(row) == ~row.description.none /\ row.description.v # ""

CountIn(x, seq) == Cardinality({k \in 1..Len(seq) : seq[k] = x})

AlwaysAsked(row) ==
    {RatingQuestion(row.title), YearQuestion(row.title),
     RentalRateQuestion(row.title), TitleByIdQuestion(row.film_id)}

RECURSIVE ItemCount(_)
ItemCount(rows) ==
    IF rows = <<>> THEN 0
    ELSE (IF HasDescription(rows[1]) THEN 5 ELSE 4) + ItemCount(Tail(rows))

\* C12: for each record the rating, year, rental rate and title-by-id items
\* are emitted, and the description item iff the description is non-empty,
\* so four or five items per record; the description answer is the whole
\* description up to 50 characters, else its first 50 characters and "...";
\* the saved dataset has the items emitted, each as often, in some order.
C12_ItemsPerRecord ==
    Generated =>
        /\ \A i \in 1..Len(fetched) :
              LET row == fetched[i]
                  about == {k \in 1..Len(dataset) :
                               dataset[k].question \in
                                   AlwaysAsked(row) \cup {DescriptionQuestion(row.title)}}
              IN /\ Cardinality(about) = IF HasDescription(row) THEN 5 ELSE 4
                 /\ \A q \in AlwaysAsked(row) :
                       \E k \in 1..Len(dataset) : dataset[k].question = q
                 /\ (\E k \in 1..Len(dataset) :
                        dataset[k].question = DescriptionQuestion(row.title))
                    <=> HasDescription(row)
                 /\ \A k \in 1..Len(dataset) :
                       dataset[k].question = DescriptionQuestion(row.title) =>
                          dataset[k].expected_answer =
                             IF Len(row.description.v) <= 50 THEN row.description.v
                             ELSE SubSeq(row.description.v, 1, 50) \o "..."
        /\ Len(dataset) = ItemCount(fetched)
        /\ Len(dataset) = Len(emitted)
        /\ \A k \in 1..Len(dataset) :
              CountIn(dataset[k], dataset) = CountIn(dataset[k], emitted)

C12_Witness ==
    /\ gen_pc = "generated"
    /\ Len(fetched) = 2 /\ Len(dataset) = 9
    /\ fetched[1].description = Some(Cut50Description)
    /\ fetched[2].description = Some("")
    /\ dataset # emitted
    /\ dataset[5] = Item(DescriptionQuestion("Year One"), Cut50Description)

\* C13: every expected answer is a string, "N/A" exactly when the field of
\* the record (rating, release_year, rental_rate, title) is missing, and
\* otherwise the value of the field, the rental rate with "$" before it.
C13_SentinelOnlyWhenMissing ==
    Generated =>
        \A i \in 1..Len(fetched) : \A k \in 1..Len(dataset) :
            LET row == fetched[i]
                item == dataset[k]
            IN /\ item.question = RatingQuestion(row.title) =>
                     item.expected_answer =
                        IF row.rating.none THEN "N/A" ELSE row.rating.v
               /\ item.question = YearQuestion(row.title) =>
                     item.expected_answer =
                        IF row.release_year.none THEN "N/A"
                        ELSE IntToStr(row.release_year.v)
               /\ item.question = RentalRateQuestion(row.title) =>
                     item.expected_answer =
                        IF row.rental_rate.none THEN "N/A"
                        ELSE "$" \o DecimalStr(row.rental_rate.v)
               /\ item.question = TitleByIdQuestion(row.film_id) =>
                     item.expected_answer = row.title

InBucket(k, b) == \E n \in 1..Len(question_types[b]) : question_types[b][n] = k

\* C14: every record is in at most one bucket, and a record whose question
\* comes from a template of the generator is in the bucket of that template.
C14_BucketOfTemplate ==
    gen_pc = "analyzed" =>
        /\ \A k \in 1..Len(dataset) :
              Cardinality({b \in 1..Len(QuestionTypes) : InBucket(k, b)}) <= 1
        /\ \A i \in 1..Len(fetched) : \A k \in 1..Len(dataset) :
              LET row == fetched[i]
                  question == dataset[k].question
              IN /\ question = RatingQuestion(row.title) => InBucket(k, 1)
                 /\ question = YearQuestion(row.title) => InBucket(k, 2)
                 /\ question = RentalRateQuestion(row.title) => InBucket(k, 3)
                 /\ question = DescriptionQuestion(row.title) => InBucket(k, 4)
                 /\ question = TitleByIdQuestion(row.film_id) => InBucket(k, 5)

-----------------------------------------------------------------------------
(* The report of the metric suite: run_ragas_evaluation and                *)
(* generate_recommendations                                                *)

QLess(x, y) == ~QGeq(x, y)

MetricThreshold == Q(7, 10)
TypeThreshold   == Q(3, 10)

\* what evaluate() can hold for one metric: no attribute, or a score
MetricResults == {None, Some(Q(69, 100)), Some(Q(7, 10))}

\* evaluation_scores[metric_name] = float(score), or 0.0 without attribute
ExtractScores(ragas) ==
    [i \in 1..Len(Metrics) |-> IF ragas[i].none THEN Zero ELSE ragas[i].v]

Rates == {Q(1, 6), Q(3, 10), One}

TypeEntry(q_type, rate) == [q_type |-> q_type, exact_match_rate |-> rate]

\* type_analysis has an entry for each bucket that is not empty, in the
\* order of the buckets
TypeAnalyses ==
    {a \o b : a \in {<<>>} \cup {<<TypeEntry("rating", r)>> : r \in Rates},
              b \in {<<>>} \cup {<<TypeEntry("year", r)>> : r \in Rates}}

\* f"{rate*100:.1f}"; a tie is rounded to the even digit, as for a value
\* the float holds exactly
Fmt1(rate) ==
    LET n   == rate[1] * 1000
        d   == rate[2]
        fl  == n \div d
        rem == n % d
        t   == IF 2 * rem > d THEN fl + 1
               ELSE IF 2 * rem < d THEN fl
               ELSE IF fl % 2 = 0 THEN fl ELSE fl + 1
    IN IntToStr(t \div 10) \o "." \o IntToStr(t % 10)

FaithfulnessText ==
    "Improve faithfulness: The generated answers are not well-grounded in the provided context. Consider improving the prompt or retrieval strategy."
AnswerRelevancyText ==
    "Improve answer relevancy: Generated answers are not sufficiently relevant to the questions. Consider refining the prompt engineering."
ContextPrecisionText ==
    "Improve context precision: Retrieved contexts are not relevant enough to the questions. Consider improving the embedding model or retrieval strategy."
ContextRecallText ==
    "Improve context recall: The retrieved context doesn't contain the necessary information. Consider increasing the number of retrieved documents or improving the retrieval strategy."
AnswerCorrectnessText ==
    "Improve answer correctness: Generated answers don't match the ground truth well. Consider improving the overall RAG pipeline."
GreatPerformanceText ==
    "Great performance! The RAG system is working well across all metrics."

TypeText(entry) ==
    "Improve " \o entry.q_type \o " questions: Only "
    \o Fmt1(entry.exact_match_rate)
    \o "% accuracy. Consider specific optimizations for this question type."

When(cond, text) == IF cond THEN <<text>> ELSE <<>>

\* "for q_type, analysis in type_analysis.items()"
RECURSIVE TypeRecommendations(_)
TypeRecommendations(ta) ==
    IF ta = <<>> THEN <<>>
    ELSE When(QLess(ta[1].exact_match_rate, TypeThreshold), TypeText(ta[1]))
         \o TypeRecommendations(Tail(ta))

generate_recommendations(scores, ta) ==
    LET found ==
            When(QLess(scores[1], MetricThreshold), FaithfulnessText)
            \o When(QLess(scores[2], MetricThreshold), AnswerRelevancyText)
            \o When(QLess(scores[3], MetricThreshold), ContextPrecisionText)
            \o When(QLess(scores[4], MetricThreshold), ContextRecallText)
            \o When(QLess(scores[5], MetricThreshold), AnswerCorrectnessText)
            \o TypeRecommendations(ta)
    IN IF found = <<>> THEN <<GreatPerformanceText>> ELSE found

InitRec ==
    /\ ServerIdleEver /\ ScoreIdle /\ EvalIdle /\ GenIdle
    /\ evaluation_scores = [i \in 1..Len(Metrics) |-> Zero]
    /\ type_analysis \in TypeAnalyses
    /\ recommendations = <<>>
    /\ rec_pc = "start"

RunRagasEvaluation ==
    /\ rec_pc = "start"
    /\ \E ragas \in [1..Len(Metrics) -> MetricResults] :
          evaluation_scores' = ExtractScores(ragas)
    /\ rec_pc' = "scored"
    /\ UNCHANGED <<type_analysis, recommendations, server_vars, score_vars,
                   eval_vars, gen_vars>>

GenerateRecommendations ==
    /\ rec_pc = "scored"
    /\ recommendations' = generate_recommendations(evaluation_scores, type_analysis)
    /\ rec_pc' = "reported"
    /\ UNCHANGED <<evaluation_scores, type_analysis, server_vars, score_vars,
                   eval_vars, gen_vars>>

NextRec == RunRagasEvaluation \/ GenerateRecommendations

SpecRec == InitRec /\ [][NextRec]_vars

-----------------------------------------------------------------------------
(* Properties of the recommendations                                       *)

\* a metric name with spaces for its underscores
RECURSIVE Spaced(_)
Spaced(s) ==
    IF s = "" THEN ""
    ELSE (IF Char(s, 1) = "_" THEN " " ELSE Char(s, 1)) \o Spaced(SubSeq(s, 2, Len(s)))

StartsWith(s, prefix) == Len(s) >= Len(prefix) /\ SubSeq(s, 1, Len(prefix)) = prefix

\* recommendations has the recommendation of the metric Metrics[i]
Recommends(i) ==
    \E k \in 1..Len(recommendations) :
        StartsWith(recommendations[k], "Improve " \o Spaced(Metrics[i]) \o ":")

\* C15: the recommendation of each of the six metrics is emitted exactly
\* when the score of the metric is below 0.7; the list is never empty; the
\* list is the one "Great performance!" message exactly when no metric is
\* below 0.7 and no bucket has an exact_match_rate below 0.3.
C15_ThresholdPerMetric ==
    rec_pc = "reported" =>
        /\ recommendations # <<>>
        /\ \A i \in 1..Len(Metrics) :
              Recommends(i) <=> QLess(evaluation_scores[i], Q(7, 10))
        /\ recommendations = <<GreatPerformanceText>> <=>
              /\ \A i \in 1..Len(Metrics) : ~QLess(evaluation_scores[i], Q(7, 10))
              /\ \A k \in 1..Len(type_analysis) :
                    ~QLess(type_analysis[k].exact_match_rate, Q(3, 10))

====
